---------------------------- MODULE Spec2Model ----------------------------
(***************************************************************************)
(* State-machine model of the kimcady reconciliation services:             *)
(*   BookingService   (services/bookingService.js)                         *)
(*   CustomerService  (services/customerService.js)                        *)
(*   RevenueService   (services/revenueService.js)                         *)
(* and of the helpers they call (utils/apiHelpers.js, cacheHelpers.js,     *)
(* bookingHelpers.js).                                                     *)
(*                                                                         *)
(* Handlers are async functions on one event loop: the code between two    *)
(* awaits that really suspend (snapshot fetch, downstream call, timer) is  *)
(* one atomic action.  One handler of each kind is in flight at a time.    *)
(* The access token is taken to be available (this.accessToken is set).    *)
(*                                                                         *)
(* Optional values (JS null/undefined) are sequences of length 0 or 1.     *)
(* Maps are functions whose DOMAIN is the set of keys present.             *)
(***************************************************************************)
EXTENDS Integers, Sequences, FiniteSets, TLC

(***************************************************************************)
(* Bounds of the model and input domains                                   *)
(***************************************************************************)
MaxTicks == 7
\* the clock ticks of the revenue path
RevTicks == 1

TickMs == 10 * 1000
StartTime == 100 * 1000

Customers == {"c1"}

\* amounts carried by confirmation blobs (speculative)
BlobAmounts == {0, 10000}

\* start_datetime of a confirmation blob: absent, or a wall-clock hour with
\* its zone designator
StartTimes == { <<>>, <<[hour |-> 10, zone |-> "+09:00"]>> }

(***************************************************************************)
(* Program constants                                                       *)
(***************************************************************************)
CacheTtlMs == 60000

(***************************************************************************)
(* JS helpers                                                              *)
(***************************************************************************)
\* a || b on numbers
JsOr(a, b) == IF a # 0 THEN a ELSE b

\* a || b where a is an optional number (undefined or a number) and b too
JsOrOpt(a, b) == IF Len(a) > 0 /\ a[1] # 0 THEN a ELSE b

\* Map.set
MapSet(m, k, v) == (k :> v) @@ m

Abs(x) == IF x < 0 THEN -x ELSE x

(***************************************************************************)
(* utils/api.js convertKSTtoUTC: not part of the sources.  Modelled as the *)
(* conversion of a zoned wall-clock time to the canonical UTC instant: a   *)
(* time already designated Z is left as it is.                             *)
(***************************************************************************)
convertKSTtoUTC(ts) ==
    IF ts.zone = "Z" THEN ts ELSE [hour |-> ts.hour - 9, zone |-> "Z"]

\* x ? convertKSTtoUTC(x) : null
ConvertOpt(t) == IF Len(t) > 0 THEN <<convertKSTtoUTC(t[1])>> ELSE <<>>

(***************************************************************************)
(* utils/cacheHelpers.js                                                   *)
(***************************************************************************)
isCacheValid_le(cache, timeoutMs, t) ==
    Len(cache.data) > 0 /\ t - cache.timestamp <= timeoutMs

isCacheValid(cache, timeoutMs, t) ==
    Len(cache.data) > 0 /\ t - cache.timestamp < timeoutMs

\* the entries of a sequence that satisfy Test, in order
RECURSIVE SelectIds(_, _)
SelectIds(results, ids) ==
    IF results = <<>> THEN <<>>
    ELSE IF Head(results).book_id \in ids
         THEN <<Head(results)>> \o SelectIds(Tail(results), ids)
         ELSE SelectIds(Tail(results), ids)

\* results.find(b => b.book_id === bookId) || null, on the cached listing
findBookingById(bookId, cache) ==
    IF Len(cache.data) = 0 THEN <<>>
    ELSE LET hit == SelectIds(cache.data[1], {bookId})
         IN IF hit = <<>> THEN <<>> ELSE <<Head(hit)>>

(***************************************************************************)
(* utils/bookingHelpers.js                                                 *)
(***************************************************************************)
extractPaymentInfo(booking) ==
    LET hasRd == Len(booking.revenue_detail) > 0
        hasPay == Len(booking.payment) > 0
        rdAmount == IF hasRd THEN booking.revenue_detail[1].amount ELSE 0
        rdFinished == IF hasRd THEN booking.revenue_detail[1].finished ELSE FALSE
    IN IF ~hasRd /\ hasPay
       THEN [amount |-> JsOr(booking.payment[1].amount, booking.amount),
             finished |-> booking.is_paid]
       ELSE IF hasRd /\ booking.is_paid
       THEN [amount |-> JsOr(rdAmount, booking.amount), finished |-> TRUE]
       ELSE [amount |-> JsOr(rdAmount, booking.amount), finished |-> rdFinished]

\* the payload with the amount forwarded for paid bookings only
prepareBookingData_paidOnly(booking, amount, finished, immediate) ==
    [externalId |-> booking.book_id,
     startDate |-> ConvertOpt(booking.start_datetime),
     paymented |-> finished,
     paymentAmount |-> IF finished THEN amount ELSE <<0>>,
     immediate |-> (booking.immediate_booked \/ immediate)]

\* the payload sent downstream; amount is an optional number
prepareBookingData(booking, amount, finished, immediate) ==
    [externalId |-> booking.book_id,
     startDate |-> ConvertOpt(booking.start_datetime),
     paymented |-> finished,
     paymentAmount |-> amount,
     immediate |-> (booking.immediate_booked \/ immediate)]

\* updatePaymentMaps, the amounts map
updatePaymentAmounts(bookId, info, paymentAmounts) ==
    IF info.amount > 0 THEN MapSet(paymentAmounts, bookId, info.amount)
    ELSE paymentAmounts

\* updatePaymentMaps, the status map
updatePaymentStatus(bookId, info, paymentStatus) ==
    MapSet(paymentStatus, bookId, info.finished)

(***************************************************************************)
(* Snapshot listings offered by the external system                        *)
(***************************************************************************)
\* a booking record of a listing.  kind: "plain" (owner booking), "app"
\* (book_type U), "immediate" (immediate_booked true).  upd is
\* customer_detail.customerinfo_set[0].upd_date, when there is one.
Booking(id, cust, st, kind, amt, paid, upd) ==
    [book_id |-> id,
     customer |-> cust,
     state |-> st,
     book_type |-> IF kind = "app" THEN "U" ELSE "M",
     confirmed_by |-> "OW",
     immediate_booked |-> (kind = "immediate"),
     revenue_detail |-> <<[amount |-> amt, finished |-> paid]>>,
     payment |-> <<>>,
     amount |-> 0,
     is_paid |-> FALSE,
     finished |-> <<>>,
     start_datetime |-> <<>>,
     upd_date |-> upd]

\* outcomes of a downstream create call, and of a downstream cancel call
CreateOutcomes == {"ok", "fail"}
CancelOutcomes == {"ok", "fail", "ALREADY_CANCELLED"}

(***************************************************************************)
(* State                                                                   *)
(***************************************************************************)
VARIABLES
    now,                        \* Date.now()
    storeId,                    \* process.env.STORE_ID || maps.storeId ("" = none)
    paymentAmounts,             \* maps.paymentAmounts
    paymentStatus,              \* maps.paymentStatus
    processedBookings,          \* maps.processedBookings
    bsProcessedAppBookings,     \* BookingService.processedAppBookings
    csProcessedAppBookings,     \* CustomerService.processedAppBookings
    cache,                      \* bookingDataCache {data, timestamp}
    customerUpdates,            \* CustomerService.customerUpdates
    recentCustomerIds,          \* CustomerService.recentCustomerIds
    processedCustomerRequests,  \* the shared processedCustomerRequests set
    timers,                     \* pending setTimeout callbacks of CustomerService
    requestMap,                 \* maps.requestMap
    bookIdToIdxMap,             \* maps.bookIdToIdxMap
    revenueToBookId,            \* Identity Ledger: revenue identifier -> booking id
    rev,                        \* history: the last event of the revenue path
    conf,                       \* the handleBookingConfirmation call in flight
    list,                       \* the handleBookingList call in flight
    cust,                       \* the processCustomerBookings task in flight
    succeeded                   \* history: ids with a downstream call that returned success

vars == <<now, storeId, paymentAmounts, paymentStatus, processedBookings,
          bsProcessedAppBookings, csProcessedAppBookings, cache,
          customerUpdates, recentCustomerIds, processedCustomerRequests, timers,
          requestMap, bookIdToIdxMap, revenueToBookId, rev, conf, list, cust, succeeded>>

ledgerVars == <<paymentAmounts, paymentStatus>>
dedupVars == <<processedBookings, bsProcessedAppBookings, csProcessedAppBookings>>
custVars == <<customerUpdates, recentCustomerIds, processedCustomerRequests, timers>>
revVars == <<requestMap, bookIdToIdxMap, revenueToBookId, rev>>

ConfIdle ==
    [pc |-> "idle", bookId |-> "B1", blobAmount |-> 0, start |-> <<>>,
     seeded |-> FALSE, hadData |-> FALSE, age |-> 0, fetched |-> FALSE,
     hasLatestData |-> FALSE, snap |-> <<>>, payload |-> <<>>,
     afterSuccess |-> FALSE, outcome |-> "none"]

CustIdle ==
    [pc |-> "idle", owner |-> "", queue |-> <<>>, cur |-> "", payload |-> <<>>,
     data |-> <<>>, fresh |-> {}, calls |-> <<>>, outcomes |-> <<>>,
     afterSuccess |-> FALSE]

RevNone ==
    [last |-> "none", idx |-> "", amount |-> 0, finished |-> FALSE,
     linked |-> FALSE, at |-> 0, pending |-> FALSE, payload |-> <<>>]

ListIdle ==
    [pc |-> "idle", data |-> <<>>, aliased |-> FALSE, queue |-> <<>>, i |-> 0,
     cur |-> "", fresh |-> {}, calls |-> <<>>, outcomes |-> <<>>, obs |-> {},
     afterSuccess |-> FALSE, escaped |-> FALSE]

Init ==
    /\ now = StartTime
    /\ storeId \in {"", "S1"}
    /\ paymentAmounts = << >>
    /\ paymentStatus = << >>
    /\ processedBookings = {}
    /\ bsProcessedAppBookings = {}
    /\ csProcessedAppBookings = {}
    /\ cache = [data |-> <<>>, timestamp |-> 0]
    /\ customerUpdates = << >>
    /\ recentCustomerIds = {}
    /\ processedCustomerRequests = {}
    /\ timers = {}
    /\ requestMap = << >>
    /\ bookIdToIdxMap = << >>
    /\ revenueToBookId = << >>
    /\ rev = RevNone
    /\ conf = ConfIdle
    /\ list = ListIdle
    /\ cust = CustIdle
    /\ succeeded = {}

(***************************************************************************)
(* Time                                                                    *)
(***************************************************************************)
Tick(maxTicks) ==
    /\ now < StartTime + maxTicks * TickMs
    /\ now' = now + TickMs
    /\ UNCHANGED <<storeId, ledgerVars, dedupVars, cache, custVars, cust, revVars,
                   conf, list, succeeded>>

(***************************************************************************)
(* BookingService.handleBookingConfirmation                                *)
(***************************************************************************)
\* parseInt(bookingInfo.amount || 0, 10)
BlobAmount(a) == a

\* const finalAmount = this.maps.paymentAmounts.get(bookId) || amount
FinalAmount(pa, bookId, amount) ==
    JsOrOpt(IF bookId \in DOMAIN pa THEN <<pa[bookId]>> ELSE <<>>, amount)

\* lines 51-88: consult the cache, build the payload, issue the create call.
\* c is the handler's record, pa/ps/cch the ledgers and cache it sees.
ConfirmationCreate(c, pa, ps, cch) ==
    LET booking == findBookingById(c.bookId, cch)
        hasLatestData == Len(booking) > 0
        info == extractPaymentInfo(booking[1])
        pa2 == IF hasLatestData THEN updatePaymentAmounts(c.bookId, info, pa) ELSE pa
        ps2 == IF hasLatestData THEN updatePaymentStatus(c.bookId, info, ps) ELSE ps
        amount == IF hasLatestData
                  THEN IF c.bookId \in DOMAIN pa2 THEN <<pa2[c.bookId]>> ELSE <<>>
                  ELSE <<c.blobAmount>>
        finished == IF hasLatestData THEN ps2[c.bookId] ELSE FALSE
        apiData == prepareBookingData(
                      [book_id |-> c.bookId,
                       start_datetime |-> ConvertOpt(c.start),
                       immediate_booked |-> FALSE],
                      FinalAmount(pa2, c.bookId, amount), finished, FALSE)
    IN [conf |-> [c EXCEPT !.pc = "create",
                           !.hasLatestData = hasLatestData,
                           !.snap = IF hasLatestData THEN <<info>> ELSE <<>>,
                           !.payload = <<apiData>>,
                           !.afterSuccess = (c.bookId \in succeeded)],
        pa |-> pa2,
        ps |-> ps2]

\* lines 18-48: the event arrives; seed the ledger; refresh the snapshot
handleBookingConfirmation(bookId, state, amt, start) ==
    /\ conf.pc = "idle"
    /\ IF state # "success"
       THEN UNCHANGED vars
       ELSE LET amount == BlobAmount(amt)
                seeded == amount > 0 /\ bookId \notin DOMAIN paymentAmounts
                pa1 == IF seeded THEN MapSet(paymentAmounts, bookId, amount)
                       ELSE paymentAmounts
                ps1 == MapSet(paymentStatus, bookId, FALSE)
                hadData == Len(cache.data) > 0
                c1 == [ConfIdle EXCEPT !.bookId = bookId, !.blobAmount = amount,
                                       !.start = start, !.seeded = seeded,
                                       !.hadData = hadData,
                                       !.age = IF hadData THEN now - cache.timestamp ELSE 0]
            IN /\ IF isCacheValid(cache, CacheTtlMs, now) \/ storeId = ""
                  THEN \* no fetch: the cache is fresh, or there is no store id
                       LET r == ConfirmationCreate(c1, pa1, ps1, cache)
                       IN /\ conf' = r.conf
                          /\ paymentAmounts' = r.pa
                          /\ paymentStatus' = r.ps
                  ELSE \* axios.get is issued, the handler is suspended
                       /\ conf' = [c1 EXCEPT !.pc = "fetch", !.fetched = TRUE]
                       /\ paymentAmounts' = pa1
                       /\ paymentStatus' = ps1
               /\ UNCHANGED <<now, storeId, dedupVars, cache, custVars, cust, revVars,
                              list, succeeded>>

\* lines 115-131 then 51-88: the fetch answers
ConfirmationFetchReturn(resp) ==
    /\ conf.pc = "fetch"
    /\ LET cache1 == IF resp.ok THEN [data |-> <<resp.results>>, timestamp |-> now]
                     ELSE cache
           r == ConfirmationCreate(conf, paymentAmounts, paymentStatus, cache1)
       IN /\ cache' = cache1
          /\ conf' = r.conf
          /\ paymentAmounts' = r.pa
          /\ paymentStatus' = r.ps
          \* the cache no longer holds the listing a snapshot handler sweeps
          /\ list' = IF resp.ok THEN [list EXCEPT !.aliased = FALSE] ELSE list
    /\ UNCHANGED <<now, storeId, dedupVars, custVars, cust, revVars, succeeded>>

\* utils/apiHelpers.js createBooking, after sendTo24GolfApi answered
createBookingProcessed_onFailureToo(processed, externalId, outcome) ==
    processed \cup {externalId}

createBookingProcessed(processed, externalId, outcome) ==
    IF outcome = "ok" THEN processed \cup {externalId} ELSE processed

\* lines 88-93: the create call answers
ConfirmationCreateReturn(outcome) ==
    /\ conf.pc = "create"
    /\ conf' = [ConfIdle EXCEPT !.pc = "done", !.bookId = conf.bookId,
                                !.outcome = outcome]
    /\ processedBookings' = createBookingProcessed(processedBookings, conf.bookId, outcome)
    /\ bsProcessedAppBookings' = IF outcome = "ok"
                                 THEN bsProcessedAppBookings \cup {conf.bookId}
                                 ELSE bsProcessedAppBookings
    /\ succeeded' = IF outcome = "ok" THEN succeeded \cup {conf.bookId} ELSE succeeded
    /\ UNCHANGED <<now, storeId, ledgerVars, csProcessedAppBookings, cache,
                   custVars, cust, revVars, list>>

\* the handler's promise settles
ConfirmationSettled ==
    /\ conf.pc = "done"
    /\ conf' = ConfIdle
    /\ UNCHANGED <<now, storeId, ledgerVars, dedupVars, cache, custVars, cust, revVars,
                   list, succeeded>>

(***************************************************************************)
(* The confirmation path alone, with the clock: one booking id is          *)
(* confirmed, the snapshot fetch answers with listings that hold it or not *)
(***************************************************************************)
\* the listings the external system can serve at instant t
ConfirmationListings(t) ==
    { <<Booking("B1", "c1", "success", "plain", amt, paid, <<>>)>> :
         amt \in {0, 20000}, paid \in BOOLEAN }
    \cup { <<Booking("B2", "c1", "success", "plain", 20000, TRUE, <<>>)>> }

\* the answers to a fetch made at instant t: an error, or a listing
ConfirmationFetchResponses(t) ==
    { [ok |-> FALSE, results |-> <<>>] }
    \cup { [ok |-> TRUE, results |-> l] : l \in ConfirmationListings(t) }

NextConfirmation ==
    \/ Tick(MaxTicks)
    \/ \E st \in {"success", "pending"}, a \in BlobAmounts, t \in StartTimes :
          handleBookingConfirmation("B1", st, a, t)
    \/ \E resp \in ConfirmationFetchResponses(now) : ConfirmationFetchReturn(resp)
    \/ \E o \in CreateOutcomes : ConfirmationCreateReturn(o)
    \/ ConfirmationSettled

SpecConfirmation == Init /\ [][NextConfirmation]_vars

(***************************************************************************)
(* CustomerService.processCustomerBookings                                 *)
(***************************************************************************)
\* new Date(upd_date || 0) of a booking
UpdDate(booking) == IF Len(booking.upd_date) > 0 THEN booking.upd_date[1] ELSE 0

\* one booking inserted into a sequence sorted by comparator bDate - aDate,
\* behind the bookings that compare equal to it (the sort is stable)
RECURSIVE InsertByUpdDate(_, _)
InsertByUpdDate(b, sorted) ==
    IF sorted = <<>> THEN <<b>>
    ELSE IF UpdDate(Head(sorted)) >= UpdDate(b)
         THEN <<Head(sorted)>> \o InsertByUpdDate(b, Tail(sorted))
         ELSE <<b>> \o sorted

\* the loop over customerBookings without the sort: listing order
SortByUpdDate_listingOrder(bookings) == bookings

\* customerBookings.sort(...): latest customer update first
RECURSIVE SortByUpdDate(_)
SortByUpdDate(bookings) ==
    IF bookings = <<>> THEN <<>>
    ELSE InsertByUpdDate(bookings[Len(bookings)],
                         SortByUpdDate(SubSeq(bookings, 1, Len(bookings) - 1)))

\* findBookingsByCustomerId(customerId, cache, 'success') without the
\* bookings of the dedup sets
RECURSIVE customerBookings(_, _, _, _)
customerBookings(customerId, results, pb, cs) ==
    IF results = <<>> THEN <<>>
    ELSE LET b == Head(results)
             rest == customerBookings(customerId, Tail(results), pb, cs)
         IN IF b.customer = customerId /\ b.state = "success"
               /\ b.book_id \notin pb /\ b.book_id \notin cs
            THEN <<b>> \o rest ELSE rest

\* the loop over customerBookings from the head of c.queue on, up to the
\* next downstream create call or the end of the task
ContinueCustomer(c, pa, ps) ==
    IF c.queue = <<>>
    THEN [cust |-> [c EXCEPT !.pc = "done", !.cur = ""], pa |-> pa, ps |-> ps]
    ELSE LET booking == Head(c.queue)
             bookId == booking.book_id
             info == extractPaymentInfo(booking)
             bookingData == prepareBookingData(booking, <<info.amount>>, info.finished,
                                               booking.immediate_booked)
         IN [cust |-> [c EXCEPT !.pc = "create", !.cur = bookId,
                                !.queue = Tail(c.queue),
                                !.payload = <<bookingData>>,
                                !.calls = Append(c.calls, bookId),
                                !.afterSuccess = (bookId \in succeeded)],
             pa |-> MapSet(pa, bookId, info.amount),
             ps |-> MapSet(ps, bookId, info.finished)]

\* the record of a processCustomerBookings task that starts with the loop
\* over todo.  owner: the customer id when _processPendingCustomer awaits
\* the task, "" when nothing awaits it.  results: the listing it was given.
StartCustomer(owner, todo, results, pb) ==
    [CustIdle EXCEPT !.owner = owner, !.queue = todo, !.data = results,
                     !.fresh = { results[k].book_id : k \in 1..Len(results) }
                                 \ (pb \cup csProcessedAppBookings)]

\* the finally block with a release after 10 s
ScheduleRelease_short(tm, customerId, t) ==
    tm \cup {[fn |-> "releaseCooldown", customerId |-> customerId, due |-> t + 10000]}

\* _processPendingCustomer lines 83-92 (finally): the timers after the
\* cooldown release of customerId is scheduled at instant t
ScheduleRelease(tm, customerId, t) ==
    tm \cup {[fn |-> "releaseCooldown", customerId |-> customerId, due |-> t + 60000]}

\* BookingService.handleBookingList lines 147-152, reached when the sweeps of
\* listing l ended without an exception: processCustomerBookings is started
\* (not awaited) for the customer under observation.  pb: processedBookings.
CustomerTail(l, pb) ==
    LET todo == IF l.pc = "done" /\ ~l.escaped /\ recentCustomerIds # {}
                THEN SortByUpdDate(customerBookings(
                         CHOOSE c \in recentCustomerIds : TRUE,
                         l.data, pb, csProcessedAppBookings))
                ELSE <<>>
        r == ContinueCustomer(StartCustomer("", todo, l.data, pb),
                              paymentAmounts, paymentStatus)
    IN IF todo = <<>>
       THEN UNCHANGED <<cust, ledgerVars>>
       ELSE /\ cust' = r.cust
            /\ paymentAmounts' = r.pa
            /\ paymentStatus' = r.ps

\* the create call of the task answers (lines 153-167): a failure is caught
\* and the loop goes on; when the loop ends in a task that
\* _processPendingCustomer awaits, its finally block runs (lines 83-92)
CustomerCreateReturn(outcome) ==
    /\ cust.pc = "create"
    /\ processedBookings' = createBookingProcessed(processedBookings, cust.cur, outcome)
    /\ csProcessedAppBookings' = IF outcome = "ok"
                                 THEN csProcessedAppBookings \cup {cust.cur}
                                 ELSE csProcessedAppBookings
    /\ succeeded' = IF outcome = "ok" THEN succeeded \cup {cust.cur} ELSE succeeded
    /\ LET r == ContinueCustomer(
                    [cust EXCEPT !.outcomes = Append(cust.outcomes, outcome)],
                    paymentAmounts, paymentStatus)
           ended == r.cust.pc = "done" /\ cust.owner # ""
       IN /\ cust' = r.cust
          /\ paymentAmounts' = r.pa
          /\ paymentStatus' = r.ps
          /\ recentCustomerIds' = IF ended THEN recentCustomerIds \ {cust.owner}
                                   ELSE recentCustomerIds
          /\ timers' = IF ended THEN ScheduleRelease(timers, cust.owner, now)
                        ELSE timers
    /\ UNCHANGED <<now, storeId, bsProcessedAppBookings, cache, customerUpdates,
                   processedCustomerRequests, revVars, conf, list>>

\* the task's promise settles
CustomerSettled ==
    /\ cust.pc = "done"
    /\ cust' = CustIdle
    /\ UNCHANGED <<now, storeId, ledgerVars, dedupVars, cache, custVars, revVars,
                   conf, list, succeeded>>

(***************************************************************************)
(* BookingService.handleBookingList                                        *)
(***************************************************************************)
InDedup(bookId, pb, bs) == bookId \in pb \/ bookId \in bs

IsCanceled(booking) == booking.state = "canceled" \/ booking.state = "canceling"

IsAppBooking(booking) ==
    booking.book_type = "U" \/ booking.confirmed_by = "IM" \/ booking.immediate_booked

IsImmediateBooking(booking) ==
    booking.immediate_booked \/ booking.confirmed_by = "IM"

\* lines 161-165: the ids of the canceling/canceled bookings in no dedup set
RECURSIVE CancelingIds(_, _, _)
CancelingIds(results, pb, bs) ==
    IF results = <<>> THEN <<>>
    ELSE LET b == Head(results)
             rest == CancelingIds(Tail(results), pb, bs)
         IN IF IsCanceled(b) /\ ~InDedup(b.book_id, pb, bs)
            THEN <<b.book_id>> \o rest ELSE rest

\* lines 210-218, with the wrong comparison
MatchingUpdate_le(booking, updates) ==
    /\ booking.customer \in DOMAIN updates
    /\ Len(booking.upd_date) > 0
    /\ Abs(booking.upd_date[1] - updates[booking.customer].updateTime) <= 61000

\* lines 207-218: matchingUpdate
MatchingUpdate(booking, updates) ==
    /\ booking.customer \in DOMAIN updates
    /\ Len(booking.upd_date) > 0
    /\ Abs(booking.upd_date[1] - updates[booking.customer].updateTime) < 60000

\* lines 226-233 on one entry of a listing: the entry after the correction
PatchEntry(entry, info) ==
    [entry EXCEPT !.amount = info.amount, !.finished = <<info.finished>>]

\* lines 226-233 on the results of a listing: the entry of bookId corrected
PatchResults(results, bookId, info) ==
    [k \in 1..Len(results) |->
        IF results[k].book_id = bookId /\ results[k].finished # <<info.finished>>
        THEN PatchEntry(results[k], info) ELSE results[k]]

\* lines 227-233: the cache after the check of bookId's entry
PatchCache(cch, bookId, info, t) ==
    LET cached == findBookingById(bookId, cch)
    IN IF Len(cached) > 0 /\ cached[1].finished # <<info.finished>>
       THEN [data |-> <<PatchResults(cch.data[1], bookId, info)>>, timestamp |-> t]
       ELSE cch

\* the record of a downstream call the snapshot handler issues
IssueCall(l, pc, bookId) ==
    [l EXCEPT !.pc = pc, !.cur = bookId,
              !.calls = Append(l.calls, [op |-> IF pc = "appCreate" THEN "create" ELSE "cancel",
                                         id |-> bookId, sweep |-> pc]),
              !.afterSuccess = (bookId \in succeeded)]

\* lines 193-250 from booking l.i on, up to the next downstream call or the
\* end of the handler.  pb, bs: the dedup sets; cch: the cache.
RECURSIVE ContinueAppSweep(_, _, _, _)
ContinueAppSweep(l, cch, pb, bs) ==
    IF l.i > Len(l.data)
    THEN [list |-> [l EXCEPT !.pc = "done", !.cur = ""], cache |-> cch]
    ELSE LET booking == l.data[l.i]
             bookId == booking.book_id
             skip == [l EXCEPT !.i = l.i + 1]
         IN IF booking.customer = "" \/ InDedup(bookId, pb, bs) \/ ~IsAppBooking(booking)
            THEN ContinueAppSweep(skip, cch, pb, bs)
            ELSE LET matchingUpdate == MatchingUpdate(booking, customerUpdates)
                     info == extractPaymentInfo(booking)
                     cch2 == PatchCache(cch, bookId, info, now)
                     l2 == [l EXCEPT
                              !.data = IF l.aliased THEN cch2.data[1] ELSE l.data,
                              !.obs = IF booking.customer \in DOMAIN customerUpdates
                                         /\ Len(booking.upd_date) > 0
                                      THEN l.obs \cup
                                           {[id |-> bookId,
                                             diff |-> booking.upd_date[1]
                                                - customerUpdates[booking.customer].updateTime,
                                             matched |-> matchingUpdate]}
                                      ELSE l.obs]
                 IN IF IsCanceled(booking) /\ matchingUpdate
                    THEN [list |-> IssueCall(l2, "appCancel", bookId), cache |-> cch2]
                    ELSE IF (booking.state = "success" \/ IsImmediateBooking(booking))
                            /\ bookId \notin bs
                    THEN [list |-> IssueCall(l2, "appCreate", bookId), cache |-> cch2]
                    ELSE ContinueAppSweep([l2 EXCEPT !.i = l.i + 1], cch2, pb, bs)

\* lines 142-144 with _handleCancelingBookings not awaited: the app-booking
\* sweep starts while the cancellation sweep has bookings left
ContinueCancelSweep_notAwaited(l, cch, pb, bs) ==
    ContinueAppSweep([l EXCEPT !.i = 1], cch, pb, bs)

\* lines 169-182 from the head of the queue on, then the app-booking sweep
RECURSIVE ContinueCancelSweep(_, _, _, _)
ContinueCancelSweep(l, cch, pb, bs) ==
    IF l.queue = <<>>
    THEN ContinueAppSweep([l EXCEPT !.i = 1], cch, pb, bs)
    ELSE IF InDedup(Head(l.queue), pb, bs)
    THEN ContinueCancelSweep([l EXCEPT !.queue = Tail(l.queue)], cch, pb, bs)
    ELSE [list |-> IssueCall([l EXCEPT !.queue = Tail(l.queue)], "cancelSweep", Head(l.queue)),
          cache |-> cch]

\* lines 134-152: a snapshot listing arrives (no task of an earlier listing
\* is still running)
handleBookingList(results) ==
    /\ list.pc = "idle"
    /\ cust.pc = "idle"
    /\ LET cache1 == [data |-> <<results>>, timestamp |-> now]
           l1 == [ListIdle EXCEPT
                     !.data = results, !.aliased = TRUE,
                     !.queue = CancelingIds(results, processedBookings,
                                            bsProcessedAppBookings),
                     !.fresh = { results[k].book_id : k \in 1..Len(results) }
                                 \ (processedBookings \cup bsProcessedAppBookings
                                    \cup csProcessedAppBookings)]
           r == ContinueCancelSweep(l1, cache1, processedBookings, bsProcessedAppBookings)
       IN /\ list' = r.list
          /\ cache' = r.cache
          /\ CustomerTail(r.list, processedBookings)
    /\ UNCHANGED <<now, storeId, dedupVars, custVars, revVars, conf, succeeded>>

\* utils/apiHelpers.js cancelBooking, after sendTo24GolfApi answered
cancelBookingProcessed_onFailureToo(processed, bookId, outcome) ==
    processed \cup {bookId}

\* cancelBooking without its catch branch for the already-canceled answer
cancelBookingProcessed_okOnly(processed, bookId, outcome) ==
    IF outcome = "ok" THEN processed \cup {bookId} ELSE processed

cancelBookingProcessed(processed, bookId, outcome) ==
    IF outcome \in {"ok", "ALREADY_CANCELLED"} THEN processed \cup {bookId}
    ELSE processed

\* _cancelBooking lines 282-283: both dedup sets once cancelBooking returned
CancelBookingDone(outcome) ==
    LET done == outcome \in {"ok", "ALREADY_CANCELLED"}
    IN /\ processedBookings' =
             cancelBookingProcessed(processedBookings, list.cur, outcome)
       /\ bsProcessedAppBookings' =
             IF done THEN bsProcessedAppBookings \cup {list.cur}
             ELSE bsProcessedAppBookings
       /\ succeeded' = IF outcome = "ok" THEN succeeded \cup {list.cur} ELSE succeeded

\* a cancel call of the cancellation sweep answers (lines 175-181), the
\* sweep goes on
CancelSweepReturn(outcome) ==
    /\ list.pc = "cancelSweep"
    /\ CancelBookingDone(outcome)
    /\ LET r == ContinueCancelSweep(
                    [list EXCEPT !.outcomes = Append(list.outcomes, outcome)],
                    cache, processedBookings', bsProcessedAppBookings')
       IN /\ list' = r.list
          /\ cache' = r.cache
          /\ CustomerTail(r.list, processedBookings')
    /\ UNCHANGED <<now, storeId, csProcessedAppBookings, custVars, revVars, conf>>

\* a cancel call of the app-booking sweep answers (lines 236-237)
AppCancelReturn(outcome) ==
    /\ list.pc = "appCancel"
    /\ CancelBookingDone(outcome)
    /\ LET r == ContinueAppSweep(
                    [list EXCEPT !.i = list.i + 1,
                                 !.outcomes = Append(list.outcomes, outcome)],
                    cache, processedBookings', bsProcessedAppBookings')
       IN /\ list' = r.list
          /\ cache' = r.cache
          /\ CustomerTail(r.list, processedBookings')
    /\ UNCHANGED <<now, storeId, csProcessedAppBookings, custVars, revVars, conf>>

\* a create call of the app-booking sweep answers (lines 245-247): a
\* failure is thrown out of _processAppBookings and handleBookingList
AppCreateReturn(outcome) ==
    /\ list.pc = "appCreate"
    /\ processedBookings' = createBookingProcessed(processedBookings, list.cur, outcome)
    /\ bsProcessedAppBookings' = IF outcome = "ok"
                                 THEN bsProcessedAppBookings \cup {list.cur}
                                 ELSE bsProcessedAppBookings
    /\ succeeded' = IF outcome = "ok" THEN succeeded \cup {list.cur} ELSE succeeded
    /\ LET l == [list EXCEPT !.outcomes = Append(list.outcomes, outcome)]
           r == IF outcome = "ok"
                THEN ContinueAppSweep([l EXCEPT !.i = list.i + 1], cache,
                                      processedBookings', bsProcessedAppBookings')
                ELSE [list |-> [l EXCEPT !.pc = "done", !.cur = "", !.escaped = TRUE],
                      cache |-> cache]
       IN /\ list' = r.list
          /\ cache' = r.cache
          /\ CustomerTail(r.list, processedBookings')
    /\ UNCHANGED <<now, storeId, csProcessedAppBookings, custVars, revVars, conf>>

\* the handler's promise settles
BookingListSettled ==
    /\ list.pc = "done"
    /\ list' = ListIdle
    /\ UNCHANGED <<now, storeId, ledgerVars, dedupVars, cache, custVars, cust,
                   revVars, conf, succeeded>>

(***************************************************************************)
(* CustomerService.handleCustomerResponse                                  *)
(***************************************************************************)
\* _storeCustomerUpdate: customerUpdates after a record whose
\* customerinfo_set[0].upd_date is upd (optional)
storeCustomerUpdate(updates, customerId, upd, t) ==
    IF Len(upd) > 0 /\ upd[1] # 0 /\ upd[1] > t - 30 * 1000
    THEN MapSet(updates, customerId, [updateTime |-> upd[1], timestamp |-> t])
    ELSE updates

\* lines 19-41 without the test of line 29: every event queues the customer
handleCustomerResponse_noGuard(customerId, upd) ==
    /\ customerUpdates' = storeCustomerUpdate(customerUpdates, customerId, upd, now)
    /\ recentCustomerIds' = recentCustomerIds \cup {customerId}
    /\ processedCustomerRequests' = processedCustomerRequests \cup {customerId}
    /\ timers' = timers \cup {[fn |-> "processPendingCustomer",
                               customerId |-> customerId,
                               due |-> now + 10000]}
    /\ UNCHANGED <<now, storeId, ledgerVars, dedupVars, cache, revVars, conf, list,
                   cust, succeeded>>

\* lines 19-41
handleCustomerResponse(customerId, upd) ==
    /\ customerUpdates' = storeCustomerUpdate(customerUpdates, customerId, upd, now)
    /\ IF customerId \in recentCustomerIds \/ customerId \in processedCustomerRequests
       THEN UNCHANGED <<recentCustomerIds, processedCustomerRequests, timers>>
       ELSE /\ recentCustomerIds' = recentCustomerIds \cup {customerId}
            /\ processedCustomerRequests' = processedCustomerRequests \cup {customerId}
            /\ timers' = timers \cup {[fn |-> "processPendingCustomer",
                                       customerId |-> customerId,
                                       due |-> now + 10000]}
    /\ UNCHANGED <<now, storeId, ledgerVars, dedupVars, cache, revVars, conf, list,
                   cust, succeeded>>

(***************************************************************************)
(* The forwarding paths together: confirmation events, snapshot listings   *)
(* and customer-identity events for two bookings of one customer, with     *)
(* every outcome of the downstream calls.  The clock stands still: the   *)
(* runs are those of the 10 seconds before the first customer timer is     *)
(* due, so the timers that handleCustomerResponse sets stay pending.       *)
(***************************************************************************)
\* upd_date of a customer record seen at instant t: recent (stored), or 30 s
\* old (not stored)
CustomerUpdDates(t) == { <<t>>, <<t - 30000>> }

\* the bookings of B1 served at instant t: app bookings whose customer data
\* is updated 59 s or 61 s after t (the upd_date of a customer record seen
\* at t), immediate bookings and owner bookings
SweepShapes(t) ==
    { Booking("B1", "c1", k[1], k[2], 20000, TRUE, k[3]) :
        k \in { <<"success", "app", <<t + 59000>>>>,
                <<"canceling", "app", <<t + 59000>>>>,
                <<"canceling", "app", <<t + 61000>>>>,
                <<"success", "immediate", <<>>>>,
                <<"canceling", "immediate", <<>>>>,
                <<"canceling", "plain", <<>>>>,
                <<"success", "plain", <<>>>> } }

SweepListings(t) ==
    { <<b>> : b \in SweepShapes(t) }
    \cup { <<Booking("B2", "c1", "canceling", "plain", 20000, TRUE, <<>>)>> }
    \cup { <<b, Booking("B2", "c1", "canceling", "plain", 20000, TRUE, <<>>)>> :
             b \in SweepShapes(t) }

SweepFetchResponses(t) ==
    { [ok |-> FALSE, results |-> <<>>],
      [ok |-> TRUE, results |-> <<Booking("B1", "c1", "success", "plain", 20000, TRUE, <<>>)>>] }

Next ==
    \/ \E st \in {"success", "pending"} :
          handleBookingConfirmation("B1", st, 10000, <<>>)
    \/ \E resp \in SweepFetchResponses(now) : ConfirmationFetchReturn(resp)
    \/ \E o \in CreateOutcomes : ConfirmationCreateReturn(o)
    \/ ConfirmationSettled
    \/ \E l \in SweepListings(now) : handleBookingList(l)
    \/ \E o \in CancelOutcomes : CancelSweepReturn(o)
    \/ \E o \in CancelOutcomes : AppCancelReturn(o)
    \/ \E o \in CreateOutcomes : AppCreateReturn(o)
    \/ BookingListSettled
    \/ \E o \in CreateOutcomes : CustomerCreateReturn(o)
    \/ CustomerSettled
    \/ \E c \in Customers, u \in CustomerUpdDates(now) : handleCustomerResponse(c, u)

Spec == Init /\ [][Next]_vars

(***************************************************************************)
(* Properties of the confirmation path                                     *)

(***************************************************************************)
(* RevenueService: payment-update and payment-create events                *)
(***************************************************************************)
\* the requestMap key `${kind}_${id}`
Key(kind, id) == <<kind, id>>

\* bookIdToIdxMap is a Map keyed by booking id; it is kept as the sequence
\* of its <<id, idx>> entries in insertion order, the order entries()
\* iterates in.  Map.set: the entry of a key already present is replaced
\* where it stands, a new key is appended.
linkIndexToBooking(m, bookIdx, bookId) ==
    IF \E n \in 1..Len(m) : m[n][1] = bookId
    THEN [n \in 1..Len(m) |-> IF m[n][1] = bookId THEN <<bookId, bookIdx>> ELSE m[n]]
    ELSE Append(m, <<bookId, bookIdx>>)

\* _findBookIdByIdx: the id of the first entry of bookIdToIdxMap, in
\* insertion order, whose value is bookIdx
findBookIdByIdx(bookIdx) ==
    LET hits == { n \in 1..Len(bookIdToIdxMap) : bookIdToIdxMap[n][2] = bookIdx }
    IN IF hits = {} THEN <<>>
       ELSE <<bookIdToIdxMap[CHOOSE n \in hits : \A k \in hits : n <= k][1]>>

\* handlers/response-helpers.js findBookIdByRevenueIdOrBookIdx: not part of
\* the sources.  The revenue identifier is looked up first, then the index.
findBookIdByRevenueIdOrBookIdx(revenueId, bookIdx) ==
    IF revenueId \in DOMAIN revenueToBookId
    THEN <<revenueToBookId[revenueId]>>
    ELSE findBookIdByIdx(bookIdx)

\* _findPendingBookings with a record of age 10,000 ms still pending
findPendingBookings_le(rm, t) ==
    { k \in DOMAIN rm : k[1] = "bookingCreate" /\ rm[k].tempBookId # ""
                          /\ t - rm[k].timestamp <= 10000 }

\* _findPendingBookings: the keys of the booking-creation records of the
\* last 10 seconds
findPendingBookings(rm, t) ==
    { k \in DOMAIN rm : k[1] = "bookingCreate" /\ rm[k].tempBookId # ""
                          /\ t - rm[k].timestamp < 10000 }

\* _updatePendingBookings: the payment data attached to the records of keys
updatePendingBookings(rm, keys, bookIdx, amount, finished, t) ==
    [k \in DOMAIN rm |->
        IF k \in keys
        THEN [rm[k] EXCEPT !.paymentAmount = <<amount>>,
                           !.paymentFinished = <<finished>>,
                           !.bookIdx = <<bookIdx>>,
                           !.paymentTimestamp = <<t>>]
        ELSE rm[k]]

\* the paymentUpdate_ entry, already marked as processed
paymentUpdateEntry_processed(revenueId, bookIdx, amount, finished, t) ==
    [revenueId |-> revenueId, bookIdx |-> bookIdx, amount |-> amount,
     finished |-> finished, processed |-> TRUE, timestamp |-> t]

\* the entry stored under paymentUpdate_<book_idx>
paymentUpdateEntry(revenueId, bookIdx, amount, finished, t) ==
    [revenueId |-> revenueId, bookIdx |-> bookIdx, amount |-> amount,
     finished |-> finished, processed |-> FALSE, timestamp |-> t]

\* _updatePaymentInfo
updatePaymentInfo(bookId, amount, finished) ==
    /\ paymentAmounts' = MapSet(paymentAmounts, bookId, amount)
    /\ paymentStatus' = MapSet(paymentStatus, bookId, finished)

\* the record of a revenue event the handlers did not ignore
RevEvent(kind, bookIdx, amount, finished, linked) ==
    [RevNone EXCEPT !.last = kind, !.idx = bookIdx, !.amount = amount,
                    !.finished = finished, !.linked = linked, !.at = now]

\* handleRevenueUpdate.  revenueId: extractRevenueId(url), optional;
\* bookIdx, amount: the fields of the form, optional; amount is the value
\* parseInt(payload.amount, 10) || 0 of a field that is present.
handleRevenueUpdate(revenueId, bookIdx, amount, finished) ==
    IF Len(revenueId) = 0 \/ Len(bookIdx) = 0 \/ Len(amount) = 0
    THEN UNCHANGED vars
    ELSE LET bookId == findBookIdByRevenueIdOrBookIdx(revenueId[1], bookIdx[1])
         IN /\ IF Len(bookId) > 0
               THEN /\ updatePaymentInfo(bookId[1], amount[1], finished)
                    /\ requestMap' = MapSet(requestMap, Key("revenueUpdate", revenueId[1]),
                           [bookId |-> bookId[1], bookIdx |-> bookIdx[1],
                            revenueId |-> revenueId[1], amount |-> amount[1],
                            finished |-> finished, timestamp |-> now])
               ELSE LET pendingBookings == findPendingBookings(requestMap, now)
                        rm1 == updatePendingBookings(requestMap, pendingBookings,
                                   bookIdx[1], amount[1], finished, now)
                        rm2 == MapSet(rm1, Key("revenueUpdate", revenueId[1]),
                                   [revenueId |-> revenueId[1], bookIdx |-> bookIdx[1],
                                    amount |-> amount[1], finished |-> finished,
                                    timestamp |-> now])
                    IN /\ requestMap' = MapSet(rm2, Key("paymentUpdate", bookIdx[1]),
                              paymentUpdateEntry(revenueId, bookIdx[1], amount[1],
                                                 finished, now))
                       /\ UNCHANGED ledgerVars
            /\ rev' = RevEvent("revenueUpdate", bookIdx[1], amount[1], finished,
                               Len(bookId) > 0)
            /\ UNCHANGED <<now, storeId, dedupVars, cache, custVars, cust, bookIdToIdxMap,
                           revenueToBookId, conf, list, succeeded>>

\* handleRevenueCreation
handleRevenueCreation(bookIdx, amount, finished) ==
    IF Len(bookIdx) = 0 \/ Len(amount) = 0
    THEN UNCHANGED vars
    ELSE LET bookId == findBookIdByIdx(bookIdx[1])
         IN /\ IF Len(bookId) > 0
               THEN /\ updatePaymentInfo(bookId[1], amount[1], finished)
                    /\ UNCHANGED requestMap
               ELSE LET pendingBookings == findPendingBookings(requestMap, now)
                        rm1 == updatePendingBookings(requestMap, pendingBookings,
                                   bookIdx[1], amount[1], finished, now)
                    IN /\ requestMap' = MapSet(rm1, Key("paymentUpdate", bookIdx[1]),
                              paymentUpdateEntry(<<>>, bookIdx[1], amount[1],
                                                 finished, now))
                       /\ UNCHANGED ledgerVars
            /\ rev' = RevEvent("revenueCreation", bookIdx[1], amount[1], finished,
                               Len(bookId) > 0)
            /\ UNCHANGED <<now, storeId, dedupVars, cache, custVars, cust, bookIdToIdxMap,
                           revenueToBookId, conf, list, succeeded>>

(***************************************************************************)
(* The booking-creation records of the Pending Update Store.  Their        *)
(* producer and their consumer (handlers/response-helpers.js               *)
(* handleBookingCreateResponse) are not part of the sources: they are      *)
(* modelled from the description of the revenue path and of the identity   *)
(* ledger.                                                                 *)
(***************************************************************************)
\* a booking-creation request is seen: its record is stored under
\* bookingCreate_<tempBookId>
BookingCreateRequest(tempBookId) ==
    /\ requestMap' = MapSet(requestMap, Key("bookingCreate", tempBookId),
                            [tempBookId |-> tempBookId, timestamp |-> now,
                             paymentAmount |-> <<>>, paymentFinished |-> <<>>,
                             bookIdx |-> <<>>, paymentTimestamp |-> <<>>])
    /\ UNCHANGED <<now, storeId, ledgerVars, dedupVars, cache, custVars, cust,
                   bookIdToIdxMap, revenueToBookId, rev, conf, list, succeeded>>

\* the creation record of tempBookId is finalized: it no longer carries a
\* temporary booking id
BookingCreateFinalized(tempBookId) ==
    /\ Key("bookingCreate", tempBookId) \in DOMAIN requestMap
    /\ requestMap[Key("bookingCreate", tempBookId)].tempBookId # ""
    /\ requestMap' = [requestMap EXCEPT ![Key("bookingCreate", tempBookId)].tempBookId = ""]
    /\ UNCHANGED <<now, storeId, ledgerVars, dedupVars, cache, custVars,
                   bookIdToIdxMap, revenueToBookId, rev, conf, list, cust, succeeded>>

\* the payment data a creation record for bookIdx is forwarded with: that of
\* the unprocessed paymentUpdate_ entry of the index, else that attached to
\* a creation record of the index, else none
CreationPayment(rm, bookIdx) ==
    LET key == Key("paymentUpdate", bookIdx)
        attached == { k \in DOMAIN rm : k[1] = "bookingCreate"
                                          /\ rm[k].bookIdx = <<bookIdx>> }
    IN IF key \in DOMAIN rm /\ ~rm[key].processed
       THEN [amount |-> rm[key].amount, finished |-> rm[key].finished]
       ELSE IF attached # {}
       THEN LET k == CHOOSE k \in attached : TRUE
            IN [amount |-> rm[k].paymentAmount[1], finished |-> rm[k].paymentFinished[1]]
       ELSE [amount |-> 0, finished |-> FALSE]

\* the booking-creation record of booking bookId with index bookIdx arrives:
\* index and revenue identifier are linked to the booking, the pending
\* payment entry is consumed and the creation payload is built
BookingCreateResponse(bookIdx, bookId) ==
    LET key == Key("paymentUpdate", bookIdx)
        pending == key \in DOMAIN requestMap /\ ~requestMap[key].processed
        pay == CreationPayment(requestMap, bookIdx)
        apiData == prepareBookingData(
                      [book_id |-> bookId, start_datetime |-> <<>>,
                       immediate_booked |-> FALSE],
                      <<pay.amount>>, pay.finished, FALSE)
    IN /\ bookIdToIdxMap' = linkIndexToBooking(bookIdToIdxMap, bookIdx, bookId)
       /\ revenueToBookId' =
             IF pending /\ Len(requestMap[key].revenueId) > 0
             THEN MapSet(revenueToBookId, requestMap[key].revenueId[1], bookId)
             ELSE revenueToBookId
       /\ requestMap' = IF pending
                        THEN [requestMap EXCEPT ![key].processed = TRUE]
                        ELSE requestMap
       /\ rev' = [RevNone EXCEPT !.last = "bookingCreate", !.idx = bookIdx,
                                 !.pending = pending, !.at = now,
                                 !.payload = <<apiData>>]
       /\ UNCHANGED <<now, storeId, ledgerVars, dedupVars, cache, custVars, cust, conf,
                      list, succeeded>>

(***************************************************************************)
(* The revenue path alone, with the clock: revenue events for one index,   *)
(* one booking-creation request and the creation records of one booking    *)
(***************************************************************************)
RevenueIds == { <<>>, <<"r1">> }
BookIdxs == { <<>>, <<"i1">> }
RevAmounts == { <<>>, <<0>>, <<5000>> }

NextRevenue ==
    \/ Tick(RevTicks)
    \/ \E r \in RevenueIds, i \in BookIdxs, a \in RevAmounts, f \in BOOLEAN :
          handleRevenueUpdate(r, i, a, f)
    \/ \E i \in BookIdxs, a \in RevAmounts, f \in BOOLEAN :
          handleRevenueCreation(i, a, f)
    \/ BookingCreateRequest("T1")
    \/ BookingCreateFinalized("T1")
    \/ BookingCreateResponse("i1", "B1")

\* the revenue path reads no store id
InitRevenue == Init /\ storeId = "S1"

SpecRevenue == InitRevenue /\ [][NextRevenue]_vars

(***************************************************************************)
(* Properties of the confirmation path                                     *)
(***************************************************************************)
ConfInFlight == conf.pc \in {"fetch", "create"}

\* C3 (as amended): the confirmation path's snapshot refresh performs no
\* external fetch when the cache holds data younger than 60,000 ms, and
\* performs one when the cache is empty or its age is 60,000 ms or more,
\* provided a store id is available.
C3_CacheFreshness ==
    ConfInFlight =>
        /\ (conf.hadData /\ conf.age < 60000) => ~conf.fetched
        /\ ((~conf.hadData \/ conf.age >= 60000) /\ storeId # "") => conf.fetched

\* C3 witness: a fetch performed with the cache exactly 60,000 ms old
C3_Witness ==
    ConfInFlight /\ conf.hadData /\ conf.age = 60000 /\ conf.fetched

\* C3 as stated: a fetch is performed whenever the cache is empty or its
\* age is at or above 60,000 ms (no store id: none is made)
C3_Original ==
    ConfInFlight =>
        /\ (conf.hadData /\ conf.age < 60000) => ~conf.fetched
        /\ (~conf.hadData \/ conf.age >= 60000) => conf.fetched

\* C4 as stated: when the snapshot consulted holds the booking with an
\* amount B that differs from the blob's amount A, the create call carries
\* B (also B = 0) and the snapshot's paid flag
C4_SnapshotOverride ==
    (conf.pc = "create" /\ conf.hasLatestData
        /\ conf.snap[1].amount # conf.blobAmount) =>
        /\ conf.payload[1].paymentAmount = <<conf.snap[1].amount>>
        /\ conf.payload[1].paymented = conf.snap[1].finished

C10_DedupOnlyOnSuccess ==
    [][ (conf.pc = "create" /\ conf' # conf) =>
          /\ conf'.pc = "done"
          /\ IF conf'.outcome = "ok"
             THEN /\ conf.bookId \in processedBookings'
                  /\ conf.bookId \in bsProcessedAppBookings'
             ELSE /\ processedBookings' = processedBookings
                  /\ bsProcessedAppBookings' = bsProcessedAppBookings ]_vars

\* C10 witness: a failed create has left the id out of the dedup sets
C10_Witness ==
    /\ conf.pc = "done" /\ conf.outcome = "fail"
    /\ conf.bookId \notin processedBookings \cup bsProcessedAppBookings

\* C10 as stated: once the create call was forwarded the id is in the
\* create dedup set, whether the call succeeded or failed
C10_Original ==
    conf.pc = "done" => conf.bookId \in bsProcessedAppBookings

(***************************************************************************)
(* Properties of the forwarding paths                                      *)
(***************************************************************************)
ListCallInFlight == list.pc \in {"cancelSweep", "appCancel", "appCreate"}

\* the calls with operation op the snapshot handler has issued for bookId
\* while handling the current listing
ListCalls(op, bookId) ==
    { k \in 1..Len(list.calls) : list.calls[k].op = op /\ list.calls[k].id = bookId }

\* C1 as stated: once a downstream create or cancel call for a booking id
\* has returned success, no further create or cancel call is made for that
\* id (no call is issued for an id that already has a successful call)
C1_NoCallAfterSuccess ==
    /\ conf.pc = "create" => ~conf.afterSuccess
    /\ ListCallInFlight => ~list.afterSuccess
    /\ cust.pc = "create" => ~cust.afterSuccess

\* C2 as stated: a booking of the listing that is cancelable and creatable
\* (app-originated and immediate) and in no dedup set gets, while the
\* listing is handled, no create call and exactly one cancel call,
\* whatever the downstream answers
C2_CancelPrecedence ==
    \A k \in 1..Len(list.data) :
        LET b == list.data[k]
        IN (IsCanceled(b) /\ IsAppBooking(b) /\ IsImmediateBooking(b)
              /\ b.book_id \in list.fresh) =>
              /\ ListCalls("create", b.book_id) = {}
              /\ Cardinality(ListCalls("cancel", b.book_id)) <= 1
              /\ (list.pc = "done" => Cardinality(ListCalls("cancel", b.book_id)) = 1)

\* C6: in the app-booking sweep a stored customer update whose upd_date is
\* 59,000 ms before the booking's customerinfo_set[0].upd_date is matched
\* to the booking, one 61,000 ms before is not: the test is on the absolute
\* difference of the two instants against 60,000 ms, and only a matched
\* canceled booking gets the sweep's cancel call.
C6_WindowMatching ==
    /\ \A o \in list.obs :
          /\ o.diff = 59000 => o.matched
          /\ o.diff = 61000 => ~o.matched
          /\ o.matched <=> (o.diff < 60000 /\ o.diff > -60000)
    /\ list.pc = "appCancel" =>
          \E o \in list.obs : o.id = list.cur /\ o.diff < 60000 /\ o.diff > -60000

\* C6 witness: a booking updated 59,000 ms after the stored customer update
\* was matched and is being canceled by the app-booking sweep
C6_Witness ==
    /\ list.pc = "appCancel"
    /\ \E o \in list.obs : o.id = list.cur /\ o.diff = 59000 /\ o.matched

\* C8 as stated: a canceling or canceled booking of the listing that is in
\* no dedup set gets exactly one cancel call while the listing is handled,
\* the cancellation sweep and the app-booking sweep taken together
C8_ExactlyOneCancel ==
    \A k \in 1..Len(list.data) :
        LET b == list.data[k]
        IN (IsCanceled(b) /\ b.book_id \in list.fresh) =>
              /\ Cardinality(ListCalls("cancel", b.book_id)) <= 1
              /\ (list.pc = "done" => Cardinality(ListCalls("cancel", b.book_id)) = 1)

\* C9: the step in which a downstream create or cancel call answers with a
\* failure (not the already-canceled answer) changes no dedup set, so the
\* id is as eligible for the call afterwards as it was before.
C9_FailureLeavesDedup ==
    [][ ( \/ (conf.pc = "create" /\ conf'.pc = "done" /\ conf'.outcome = "fail")
          \/ (ListCallInFlight /\ Len(list'.outcomes) = Len(list.outcomes) + 1
                /\ list'.outcomes[Len(list'.outcomes)] = "fail")
          \/ (cust.pc = "create" /\ Len(cust'.outcomes) = Len(cust.outcomes) + 1
                /\ cust'.outcomes[Len(cust'.outcomes)] = "fail") )
        => /\ processedBookings' = processedBookings
           /\ bsProcessedAppBookings' = bsProcessedAppBookings
           /\ csProcessedAppBookings' = csProcessedAppBookings ]_vars

\* C9 witness: the cancel call of the cancellation sweep failed, the id is
\* in no dedup set and the app-booking sweep issues the call again
C9_Witness ==
    /\ list.pc = "appCancel"
    /\ list.outcomes = <<"fail">>
    /\ list.calls[1].id = list.cur
    /\ list.cur \notin processedBookings \cup bsProcessedAppBookings
                       \cup csProcessedAppBookings

(***************************************************************************)
(* Properties of the revenue path                                          *)
(***************************************************************************)
\* C5: a payment-update or payment-create event for an index that resolves
\* to no booking leaves under paymentUpdate_<index> an unprocessed entry with
\* the event's amount, paid flag and time; a booking-creation record for
\* that index arriving within 10,000 ms of the entry is forwarded with the
\* entry's amount and paid flag.
C5_PendingCorrelation ==
    LET key == Key("paymentUpdate", rev.idx)
    IN /\ (rev.last \in {"revenueUpdate", "revenueCreation"} /\ ~rev.linked) =>
             /\ key \in DOMAIN requestMap
             /\ requestMap[key].amount = rev.amount
             /\ requestMap[key].finished = rev.finished
             /\ ~requestMap[key].processed
             /\ requestMap[key].timestamp = rev.at
       /\ (rev.last = "bookingCreate" /\ rev.pending
             /\ rev.at - requestMap[key].timestamp <= 10000) =>
             /\ rev.payload[1].paymentAmount = <<requestMap[key].amount>>
             /\ rev.payload[1].paymented = requestMap[key].finished

\* C5 witness: a creation record forwarded with the amount of a revenue
\* event that came 10,000 ms before it
C5_Witness ==
    LET key == Key("paymentUpdate", rev.idx)
    IN /\ rev.last = "bookingCreate" /\ rev.pending
       /\ rev.at - requestMap[key].timestamp = 10000
       /\ requestMap[key].amount = 5000
       /\ rev.payload[1].paymentAmount = <<5000>>

(***************************************************************************)
(* Properties of the error handling                                        *)
(***************************************************************************)
\* the step issues a downstream cancel call of the snapshot handler
CancelIssued ==
    /\ list'.pc \in {"cancelSweep", "appCancel"}
    /\ Len(list'.calls) = Len(list.calls) + 1

\* the step in which a cancel call of the snapshot handler gets answer o
CancelAnswered(o) ==
    /\ list.pc \in {"cancelSweep", "appCancel"}
    /\ Len(list'.outcomes) = Len(list.outcomes) + 1
    /\ list'.outcomes[Len(list'.outcomes)] = o

\* C11: when a downstream cancel call answers ALREADY_CANCELLED, no error
\* leaves the snapshot handler and the booking id is put into
\* processedBookings and into processedAppBookings; ids never leave these
\* sets, and a cancel call is issued only for an id that is in neither, so
\* no later listing triggers another cancel call for the id.
C11_AlreadyCancelledIsSuccess ==
    [][ /\ CancelAnswered("ALREADY_CANCELLED") =>
              /\ ~list'.escaped
              /\ list.cur \in processedBookings'
              /\ list.cur \in bsProcessedAppBookings'
        /\ processedBookings \subseteq processedBookings'
        /\ bsProcessedAppBookings \subseteq bsProcessedAppBookings'
        /\ CancelIssued =>
              list'.cur \notin processedBookings' \cup bsProcessedAppBookings' ]_vars

\* C11 witness: the cancellation sweep's call for a canceled app booking was
\* answered ALREADY_CANCELLED; the app-booking sweep, which matches the
\* booking to a customer update, made no second cancel call for it
C11_Witness ==
    /\ list.pc = "done"
    /\ ~list.escaped
    /\ list.outcomes = <<"ALREADY_CANCELLED">>
    /\ Len(list.calls) = 1
    /\ list.calls[1].id \in processedBookings \cap bsProcessedAppBookings
    /\ \E k \in 1..Len(list.data) :
          /\ list.data[k].book_id = list.calls[1].id
          /\ IsCanceled(list.data[k]) /\ IsAppBooking(list.data[k])
          /\ MatchingUpdate(list.data[k], customerUpdates)

(***************************************************************************)
(* The confirmation path next to the snapshot path, with the clock: owner  *)
(* bookings only, so that a listing fills the cache and its sweeps make no *)
(* downstream call                                                         *)
(***************************************************************************)
NextCachedConfirmation ==
    \/ Tick(MaxTicks)
    \/ \E st \in {"success", "pending"}, a \in BlobAmounts :
          handleBookingConfirmation("B1", st, a, <<>>)
    \/ \E resp \in ConfirmationFetchResponses(now) : ConfirmationFetchReturn(resp)
    \/ \E o \in CreateOutcomes : ConfirmationCreateReturn(o)
    \/ ConfirmationSettled
    \/ \E l \in ConfirmationListings(now) : handleBookingList(l)
    \/ BookingListSettled

SpecCachedConfirmation == Init /\ [][NextCachedConfirmation]_vars

\* the refresh of the confirmation in flight found no usable cache (no
\* data, or data aged 60,000 ms or more) and no store id
RefreshAborted ==
    /\ storeId = ""
    /\ ~(conf.hadData /\ conf.age < CacheTtlMs)

\* C12 as stated: when no store id is available the refresh makes no fetch
\* and leaves the cache as it is, and the create call of the confirmation
\* handler carries speculative values only: the paid flag false and the
\* blob amount or the amount recorded in the ledger, nothing taken from the
\* cache
C12_NoStoreSpeculative ==
    (conf.pc = "create" /\ RefreshAborted) =>
        /\ ~conf.fetched
        /\ ~conf.hasLatestData
        /\ conf.snap = <<>>
        /\ conf.payload[1].paymented = FALSE

\* C13 as stated: a downstream failure for one booking of a listing does
\* not leave the snapshot handler, and the handler ends only after the
\* cancellation sweep and the app-booking sweep went through every booking
\* of the listing
C13_PartialFailureIsolation ==
    /\ ~list.escaped
    /\ list.pc = "done" => (list.queue = <<>> /\ list.i > Len(list.data))

(***************************************************************************)
(* Properties of the order of the sweeps                                   *)
(***************************************************************************)
\* C14: while one listing is handled, the app-booking sweep issues a
\* downstream call only when the cancellation sweep has no booking left
\* and each of its cancel calls has been answered; no call of the
\* cancellation sweep follows a call of the app-booking sweep.
C14_CancelSweepFirst ==
    /\ list.pc \in {"appCancel", "appCreate"} => list.queue = <<>>
    /\ \A j, k \in 1..Len(list.calls) :
          (list.calls[j].sweep = "cancelSweep" /\ list.calls[k].sweep # "cancelSweep")
             => (j < k /\ j <= Len(list.outcomes))

\* C14 witness: the app-booking sweep has a call in flight after the
\* cancellation sweep made a cancel call that was answered
C14_Witness ==
    /\ list.pc \in {"appCancel", "appCreate"}
    /\ Len(list.calls) >= 2
    /\ list.calls[1].sweep = "cancelSweep"
    /\ Len(list.outcomes) = Len(list.calls) - 1

(***************************************************************************)
(* Properties of the Payment Ledger                                        *)
(***************************************************************************)
\* C15 as stated: a paid flag of the Payment Ledger that is true stays true
\* in every step of a confirmation event or of a revenue event, unless the
\* step takes the flag false from the booking's record in a snapshot
\* listing
C15_PaidFlagMonotone ==
    [][ \A id \in DOMAIN paymentStatus :
            (paymentStatus[id] /\ ~paymentStatus'[id]) =>
                /\ conf'.bookId = id
                /\ Len(conf'.snap) > 0
                /\ ~conf'.snap[1].finished ]_vars

(***************************************************************************)
(* CustomerService: the deferred tasks                                     *)
(***************************************************************************)
\* the timer of _processPendingCustomer fires (lines 71-93).  The task of an
\* earlier run or listing has ended.
processPendingCustomer(tm) ==
    /\ tm \in timers
    /\ tm.fn = "processPendingCustomer"
    /\ tm.due <= now
    /\ cust.pc = "idle"
    /\ LET customerId == tm.customerId
           todo == IF isCacheValid(cache, 60000, now)
                   THEN SortByUpdDate(customerBookings(customerId, cache.data[1],
                            processedBookings, csProcessedAppBookings))
                   ELSE <<>>
           r == ContinueCustomer(
                    StartCustomer(customerId, todo,
                                  IF isCacheValid(cache, 60000, now)
                                  THEN cache.data[1] ELSE <<>>,
                                  processedBookings),
                    paymentAmounts, paymentStatus)
       IN /\ cust' = r.cust
          /\ paymentAmounts' = r.pa
          /\ paymentStatus' = r.ps
          /\ IF todo = <<>>
             THEN \* nothing to await: the finally block runs at once
                  /\ recentCustomerIds' = recentCustomerIds \ {customerId}
                  /\ timers' = ScheduleRelease(timers \ {tm}, customerId, now)
             ELSE /\ recentCustomerIds' = recentCustomerIds
                  /\ timers' = timers \ {tm}
    /\ UNCHANGED <<now, storeId, dedupVars, cache, customerUpdates,
                   processedCustomerRequests, revVars, conf, list, succeeded>>

\* the timer set in the finally block fires (lines 87-90)
releaseCooldown(tm) ==
    /\ tm \in timers
    /\ tm.fn = "releaseCooldown"
    /\ tm.due <= now
    /\ processedCustomerRequests' = processedCustomerRequests \ {tm.customerId}
    /\ timers' = timers \ {tm}
    /\ UNCHANGED <<now, storeId, ledgerVars, dedupVars, cache, customerUpdates,
                   recentCustomerIds, revVars, conf, list, cust, succeeded>>

\* the clock advances when no timer is due
TimerTick(maxTicks) ==
    /\ \A tm \in timers : tm.due > now
    /\ Tick(maxTicks)

(***************************************************************************)
(* The customer path with the clock: identity events of one customer,      *)
(* listings of owner bookings (their sweeps make no downstream call), the  *)
(* deferred tasks and the create calls they make                           *)
(***************************************************************************)
CustTicks == 8

\* the listings served at instant t: bookings of c1 listed in ascending
\* order of their customer update, a booking of c1 that is not in state
\* success, a booking of another customer
CustomerListings(t) ==
    { <<Booking("B1", "c1", "success", "plain", 20000, TRUE, <<t - 2000>>),
        Booking("B2", "c1", "success", "plain", 0, FALSE, <<t - 1000>>),
        Booking("B3", "c1", "pending", "plain", 20000, TRUE, <<t>>)>>,
      <<Booking("B1", "c1", "success", "plain", 20000, TRUE, <<t - 2000>>),
        Booking("B4", "c2", "success", "plain", 20000, TRUE, <<t>>)>> }

NextCustomer ==
    \/ TimerTick(CustTicks)
    \/ \E c \in Customers, u \in CustomerUpdDates(now) : handleCustomerResponse(c, u)
    \/ \E tm \in timers : processPendingCustomer(tm)
    \/ \E tm \in timers : releaseCooldown(tm)
    \/ \E l \in CustomerListings(now) : handleBookingList(l)
    \/ BookingListSettled
    \/ \E o \in CreateOutcomes : CustomerCreateReturn(o)
    \/ CustomerSettled

SpecCustomer == Init /\ [][NextCustomer]_vars

(***************************************************************************)
(* Properties of the customer path                                         *)
(***************************************************************************)
\* the customer id is queued: its pending marker or its cooldown marker is set
Queued(c) == c \in recentCustomerIds \/ c \in processedCustomerRequests

\* C16 (amended): a customer-identity event for a customer id that is
\* queued (pending, or in cooldown) schedules no deferred task and leaves
\* the pending marker and the cooldown marker as they are; the stored
\* customer update of the id is still replaced when the record's upd_date
\* is less than 30,000 ms old.
C16_ReentryGuard ==
    [][ \A c \in Customers, u \in CustomerUpdDates(now) :
          (Queued(c) /\ handleCustomerResponse(c, u)) =>
              /\ timers' = timers
              /\ recentCustomerIds' = recentCustomerIds
              /\ processedCustomerRequests' = processedCustomerRequests
              /\ customerUpdates' = storeCustomerUpdate(customerUpdates, c, u, now) ]_vars

\* C16 witness: during the cooldown of c1 (its deferred run is over, the
\* release is scheduled) an identity event stored a customer update, and no
\* deferred task is scheduled
C16_Witness ==
    /\ "c1" \in processedCustomerRequests
    /\ "c1" \notin recentCustomerIds
    /\ "c1" \in DOMAIN customerUpdates
    /\ \A tm \in timers : tm.fn = "releaseCooldown"
    /\ \E tm \in timers :
          /\ tm.customerId = "c1"
          /\ customerUpdates["c1"].timestamp > tm.due - 60000

\* C16 as stated: the event for a queued customer id is a no-op, the stored
\* customer update of the id included
C16_Original ==
    [][ \A c \in Customers, u \in CustomerUpdDates(now) :
          (Queued(c) /\ handleCustomerResponse(c, u)) =>
              /\ timers' = timers
              /\ recentCustomerIds' = recentCustomerIds
              /\ processedCustomerRequests' = processedCustomerRequests
              /\ customerUpdates' = customerUpdates ]_vars

\* the timers of kind fn that are set for customer c
TimersOf(fn, c) == { tm \in timers : tm.fn = fn /\ tm.customerId = c }

\* the deferred run of customer c is suspended in a create call
Running(c) == cust.owner = c /\ cust.pc = "create"

\* at every instant: at most one deferred task of c is outstanding
\* (scheduled or running); the pending marker is set exactly while it is;
\* the cooldown marker is set exactly while the id is pending or a release
\* is scheduled, and a release is at most 60,000 ms away
CooldownState(c) ==
    /\ Cardinality(TimersOf("processPendingCustomer", c))
          + (IF Running(c) THEN 1 ELSE 0) <= 1
    /\ c \in recentCustomerIds <=>
          (TimersOf("processPendingCustomer", c) # {} \/ Running(c))
    /\ c \in processedCustomerRequests <=>
          (c \in recentCustomerIds \/ TimersOf("releaseCooldown", c) # {})
    /\ Cardinality(TimersOf("releaseCooldown", c)) <= 1
    /\ c \in recentCustomerIds => TimersOf("releaseCooldown", c) = {}
    /\ \A tm \in TimersOf("releaseCooldown", c) : tm.due >= now /\ tm.due <= now + 60000

\* in every step: a deferred task of c is scheduled only when c is neither
\* pending nor in cooldown, and then by any identity event; the step that
\* clears the pending marker schedules the release for 60,000 ms later; the
\* cooldown marker is removed by that release, at its instant
CooldownStep(c) ==
    /\ (TimersOf("processPendingCustomer", c)' \ TimersOf("processPendingCustomer", c) # {})
          => ~Queued(c)
    /\ \A u \in CustomerUpdDates(now) :
          (~Queued(c) /\ handleCustomerResponse(c, u)) =>
              [fn |-> "processPendingCustomer", customerId |-> c, due |-> now + 10000]
                 \in timers'
    /\ (c \in recentCustomerIds /\ c \notin recentCustomerIds') =>
          TimersOf("releaseCooldown", c)' = {[fn |-> "releaseCooldown", customerId |-> c,
                                              due |-> now + 60000]}
    /\ (c \in processedCustomerRequests /\ c \notin processedCustomerRequests') =>
          /\ \E tm \in TimersOf("releaseCooldown", c) : tm.due = now
          /\ ~Queued(c)'

\* C17: no deferred task is scheduled for a customer id that is pending or
\* within the 60,000 ms after its deferred run, so at most one deferred
\* task per id is outstanding; the pending marker is cleared when the run
\* ends, the cooldown marker 60,000 ms later, and an identity event after
\* that queues the customer again.
C17_PendingAndCooldown ==
    /\ [](\A c \in Customers : CooldownState(c))
    /\ [][\A c \in Customers : CooldownStep(c)]_vars

\* C17 witness: c1 is queued a second time, after its first deferred run
\* and the release of its cooldown 60,000 ms later; the creates made for
\* its bookings so far have all failed
C17_Witness ==
    /\ "c1" \in recentCustomerIds
    /\ \E tm \in TimersOf("processPendingCustomer", "c1") :
          tm.due >= StartTime + 10000 + 60000 + 10000
    /\ processedBookings = {}
    /\ DOMAIN paymentStatus # {}

\* the positions in the listing of a customer task of the bookings a create
\* is due for: those of the customer, in state success, in no dedup set when
\* the task started
Eligible(c) ==
    { k \in 1..Len(c.data) : /\ c.data[k].customer = c.owner
                             /\ c.data[k].state = "success"
                             /\ c.data[k].book_id \in c.fresh }

\* the booking of the task's listing with id bookId
TaskBooking(c, bookId) ==
    c.data[CHOOSE k \in 1..Len(c.data) : c.data[k].book_id = bookId]

\* C18: the deferred task of a customer that fires while a snapshot less
\* than 60,000 ms old is cached issues its create calls one at a time, only
\* for bookings of the customer that are in state success and were in no
\* dedup set, each once, latest customer update first, and it ends only
\* when each of them has had its create call, whatever the calls answered.
C18_DeferredCreates ==
    cust.owner # "" =>
        /\ \A i \in 1..Len(cust.calls) :
              \E k \in Eligible(cust) : cust.data[k].book_id = cust.calls[i]
        /\ \A i, j \in 1..Len(cust.calls) :
              i < j => /\ cust.calls[i] # cust.calls[j]
                       /\ UpdDate(TaskBooking(cust, cust.calls[i]))
                             >= UpdDate(TaskBooking(cust, cust.calls[j]))
        /\ cust.pc = "create" => Len(cust.outcomes) = Len(cust.calls) - 1
        /\ cust.pc = "done" =>
              /\ Len(cust.outcomes) = Len(cust.calls)
              /\ Len(cust.calls) = Cardinality(Eligible(cust))

\* C18 witness: the deferred task of c1 made the create call for B2 (the
\* later customer update) first, it failed, and then the one for B1
C18_Witness ==
    /\ cust.owner = "c1"
    /\ cust.pc = "done"
    /\ cust.calls = <<"B2", "B1">>
    /\ cust.outcomes = <<"fail", "ok">>
    /\ Len(cust.data) = 3

(***************************************************************************)
(* Properties of the Pending Update Store                                  *)
(***************************************************************************)
\* the entry e of the store carries the index, amount and paid flag of the
\* last revenue event
CarriesEvent(e) ==
    e.bookIdx = rev.idx /\ e.amount = rev.amount /\ e.finished = rev.finished

\* C19 as stated: after a revenue event (payment-update or payment-create)
\* that carries an index and an amount the store holds an entry under a
\* revenueUpdate_ key and an entry under paymentUpdate_<index>, both with
\* the event's amount and paid flag, whether the event resolved to a
\* booking or not
C19_BothKeysStored ==
    rev.last \in {"revenueUpdate", "revenueCreation"} =>
        /\ \E k \in DOMAIN requestMap :
              k[1] = "revenueUpdate" /\ CarriesEvent(requestMap[k])
        /\ Key("paymentUpdate", rev.idx) \in DOMAIN requestMap
        /\ CarriesEvent(requestMap[Key("paymentUpdate", rev.idx)])

\* the attach step of a revenue event with amount, paid flag and index, seen
\* from outside: every booking-creation record that still carries its
\* temporary id and is less than 10,000 ms old gets the event's amount and
\* paid flag; every other entry, the entries under the keys the event
\* itself stores (own) excepted, is as before
AttachedExactly(amount, finished, own) ==
    /\ DOMAIN requestMap' = DOMAIN requestMap \cup own
    /\ \A k \in DOMAIN requestMap :
          IF k[1] = "bookingCreate" /\ requestMap[k].tempBookId # ""
                /\ now - requestMap[k].timestamp < 10000
          THEN /\ requestMap'[k].paymentAmount = <<amount>>
               /\ requestMap'[k].paymentFinished = <<finished>>
               /\ requestMap'[k].tempBookId = requestMap[k].tempBookId
               /\ requestMap'[k].timestamp = requestMap[k].timestamp
          ELSE k \notin own => requestMap'[k] = requestMap[k]

\* C20: a revenue event (payment-update or payment-create) that resolves to
\* no booking attaches its amount and paid flag to exactly the
\* booking-creation records that are not finalized and less than 10,000 ms
\* old; records aged 10,000 ms or more, finalized records and the other
\* entries of the store are left as they were by the attach step.
C20_AttachWindow ==
    [][ /\ \A r \in RevenueIds, i \in BookIdxs, a \in RevAmounts, f \in BOOLEAN :
              ( /\ Len(r) > 0 /\ Len(i) > 0 /\ Len(a) > 0
                /\ rev'.last = "revenueUpdate"
                /\ rev'.amount = a[1] /\ rev'.finished = f
                /\ findBookIdByRevenueIdOrBookIdx(r[1], i[1]) = <<>>
                /\ handleRevenueUpdate(r, i, a, f) )
              => AttachedExactly(a[1], f, {Key("revenueUpdate", r[1]),
                                           Key("paymentUpdate", i[1])})
        /\ \A i \in BookIdxs, a \in RevAmounts, f \in BOOLEAN :
              ( /\ Len(i) > 0 /\ Len(a) > 0
                /\ rev'.last = "revenueCreation"
                /\ rev'.amount = a[1] /\ rev'.finished = f
                /\ findBookIdByIdx(i[1]) = <<>>
                /\ handleRevenueCreation(i, a, f) )
              => AttachedExactly(a[1], f, {Key("paymentUpdate", i[1])}) ]_vars

\* C20 witness: a revenue event that resolved to no booking has attached
\* its amount and paid flag to the creation record T1, then less than
\* 10,000 ms old; the record is now 10,000 ms old and still not finalized
C20_Witness ==
    /\ rev.last \in {"revenueUpdate", "revenueCreation"}
    /\ ~rev.linked
    /\ Key("bookingCreate", "T1") \in DOMAIN requestMap
    /\ LET e == requestMap[Key("bookingCreate", "T1")]
       IN /\ e.tempBookId # ""
          /\ e.paymentAmount = <<rev.amount>>
          /\ e.paymentFinished = <<rev.finished>>
          /\ e.paymentTimestamp = <<rev.at>>
          /\ now - e.timestamp = 10000

(***************************************************************************)
(* The identity ledger: one index linked to two bookings in turn, and the  *)
(* payment-create events of that index                                     *)
(***************************************************************************)
NextIdentity ==
    \/ BookingCreateResponse("i1", "B1")
    \/ BookingCreateResponse("i1", "B2")
    \/ \E a \in RevAmounts, f \in BOOLEAN : handleRevenueCreation(<<"i1">>, a, f)

SpecIdentity == InitRevenue /\ [][NextIdentity]_vars

\* the Payment Ledger entry of a booking: amount and paid flag, when present
LedgerEntry(pa, ps, bookId) ==
    <<IF bookId \in DOMAIN pa THEN <<pa[bookId]>> ELSE <<>>,
      IF bookId \in DOMAIN ps THEN <<ps[bookId]>> ELSE <<>>>>

PatchTicks == 7

\* listings of one pending app booking B1
PatchListings(t) ==
    { <<Booking("B1", "c1", "pending", "app", a, p, <<t - 1000>>)>> :
        a \in {5000, 7000}, p \in BOOLEAN }

\* lines 139-140 of a handler that starts
SnapshotReceived(results) ==
    /\ ~(list.aliased /\ list.data # <<>>)
    /\ cache' = [data |-> <<results>>, timestamp |-> now]
    /\ list' = [list EXCEPT !.data = IF list.aliased THEN cache.data[1] ELSE list.data,
                            !.aliased = TRUE, !.i = now]
    /\ UNCHANGED <<now, storeId, ledgerVars, dedupVars, custVars, cust, revVars,
                   conf, succeeded>>

\* the booking the app-booking sweep of a suspended handler reads: the
\* record of its own listing, which is the cached record for the handler
\* whose listing is cached
SweepBooking(which) ==
    IF which = "older" THEN list.data[1] ELSE cache.data[1][1]

\* lines 193-250 of a suspended handler, which then completes
AppSweep(which) ==
    /\ IF which = "older" THEN list.data # <<>> ELSE list.aliased
    /\ LET booking == SweepBooking(which)
       IN cache' = PatchCache(cache, booking.book_id, extractPaymentInfo(booking), now)
    /\ list' = IF which = "older" THEN [list EXCEPT !.data = <<>>]
               ELSE [list EXCEPT !.aliased = FALSE]
    /\ UNCHANGED <<now, storeId, ledgerVars, dedupVars, custVars, cust, revVars,
                   conf, succeeded>>

NextPatch ==
    \/ Tick(PatchTicks)
    \/ \E l \in PatchListings(now) : SnapshotReceived(l)
    \/ \E which \in {"older", "newer"} : AppSweep(which)

SpecPatch == InitRevenue /\ [][NextPatch]_vars

\* C22: when the app-booking sweep extracts for a booking an amount or a
\* paid flag that differs from the cached entry of the same id, the cached
\* entry then carries the extracted amount and paid flag and the cache
\* timestamp is the instant of the correction; when both agree, the cache is
\* left as it was.
C22_CacheCorrected ==
    [][ \A which \in {"older", "newer"} :
          (AppSweep(which) /\ findBookingById("B1", cache) # <<>>)
          => LET info == extractPaymentInfo(SweepBooking(which))
                 cached == findBookingById("B1", cache)[1]
                 after == findBookingById("B1", cache')[1]
             IN IF cached.amount # info.amount \/ cached.finished # <<info.finished>>
                THEN /\ after.amount = info.amount
                     /\ after.finished = <<info.finished>>
                     /\ cache'.timestamp = now
                ELSE cache' = cache ]_vars

\* C23: when a fetched snapshot listing replaces the cache, the Payment
\* Ledger entry that the confirmation in flight seeded from its blob, for a
\* booking the listing holds, then carries the listing's amount and paid
\* flag.
C23_SnapshotOverridesSpeculative ==
    [][ \A resp \in ConfirmationFetchResponses(now) :
          ( /\ ConfirmationFetchReturn(resp)
            /\ resp.ok
            /\ conf.seeded
            /\ SelectIds(resp.results, {conf.bookId}) # <<>> )
          => LET info == extractPaymentInfo(Head(SelectIds(resp.results, {conf.bookId})))
             IN /\ paymentAmounts'[conf.bookId] = info.amount
                /\ paymentStatus'[conf.bookId] = info.finished ]_vars

(***************************************************************************)
(* extractPaymentInfo on every shape of a booking record: the confirmation *)
(* path with listings whose record of B1 has or lacks revenue_detail and   *)
(* payment, with is_paid true or false                                     *)
(***************************************************************************)
ExtractBookings(t) ==
    { [Booking("B1", "c1", "success", "plain", 0, FALSE, <<t - 1000>>)
         EXCEPT !.revenue_detail = rd, !.payment = pay, !.is_paid = paid] :
        rd \in { <<>>, <<[amount |-> 20000, finished |-> FALSE]>>,
                 <<[amount |-> 20000, finished |-> TRUE]>> },
        pay \in { <<>>, <<[amount |-> 5000]>> },
        paid \in BOOLEAN }

ExtractFetchResponses(t) ==
    { [ok |-> TRUE, results |-> <<b>>] : b \in ExtractBookings(t) }

NextExtract ==
    \/ \E a \in BlobAmounts : handleBookingConfirmation("B1", "success", a, <<>>)
    \/ \E resp \in ExtractFetchResponses(now) : ConfirmationFetchReturn(resp)
    \/ \E o \in CreateOutcomes : ConfirmationCreateReturn(o)
    \/ ConfirmationSettled

SpecExtract == InitRevenue /\ [][NextExtract]_vars

\* revenue_detail.finished of a booking record, false when there is none
RevenueFinished(booking) ==
    Len(booking.revenue_detail) > 0 /\ booking.revenue_detail[1].finished

\* C24: the paid flag extractPaymentInfo returns for a booking record is
\* the logical OR of revenue_detail.finished and is_paid, whether the record
\* has a revenue_detail and a payment sub-record or not.
C24_PaidFlagIsOr ==
    (conf.pc = "create" /\ conf.hasLatestData)
    => LET booking == findBookingById(conf.bookId, cache)[1]
       IN conf.snap[1].finished = (RevenueFinished(booking) \/ booking.is_paid)

\* C25: an app booking that the app-booking sweep examines (it is in no
\* dedup set) is matched to its customer's stored update when the two update
\* instants are less than 60,000 ms apart or, failing that, when the stored
\* update is itself less than 60,000 ms old; a matched booking in state
\* canceling or canceled gets a cancel call from the sweep.
C25_MatchedCancel ==
    \A o \in list.obs : \A k \in 1..Len(list.data) :
        LET b == list.data[k]
            matched ==
                \/ Abs(o.diff) < 60000
                \/ /\ b.customer \in DOMAIN customerUpdates
                   /\ now - customerUpdates[b.customer].timestamp < 60000
        IN (b.book_id = o.id /\ IsAppBooking(b) /\ IsCanceled(b) /\ matched)
           => \E j \in 1..Len(list.calls) :
                 /\ list.calls[j].id = o.id
                 /\ list.calls[j].sweep = "appCancel"

(***************************************************************************)
(* The customer path next to the app-booking sweep, with the clock: the    *)
(* listings hold an app booking of the customer, so that the sweep makes a *)
(* create call, and the customer's deferred task may fire while that call  *)
(* is in flight.  The call of the sweep answers when no customer task is   *)
(* running; the clock stops before a cooldown release is due.              *)
(***************************************************************************)
OverlapTicks == 2

OverlapListings(t) ==
    { <<Booking("B1", "c1", "success", "app", 20000, TRUE, <<t - 1000>>)>>,
      <<Booking("B1", "c1", "success", "app", 20000, TRUE, <<t - 1000>>),
        Booking("B2", "c1", "success", "plain", 20000, TRUE, <<t - 2000>>)>> }

NextOverlap ==
    \/ TimerTick(OverlapTicks)
    \/ \E c \in Customers : handleCustomerResponse(c, <<now>>)
    \/ \E tm \in timers : processPendingCustomer(tm)
    \/ \E l \in OverlapListings(now) : handleBookingList(l)
    \/ \E o \in CreateOutcomes : cust.pc = "idle" /\ AppCreateReturn(o)
    \/ BookingListSettled
    \/ \E o \in CreateOutcomes : CustomerCreateReturn(o)
    \/ CustomerSettled

SpecOverlap == InitRevenue /\ [][NextOverlap]_vars

\* C26: the deferred task of a customer, the per-customer processing a
\* snapshot handler starts and the app-booking sweep never have a create
\* call for the same booking id in flight at the same time.
C26_OneCreateInFlight ==
    ~( /\ list.pc = "appCreate"
       /\ cust.pc = "create"
       /\ list.cur = cust.cur )

(***************************************************************************)
(* The confirmation path next to the revenue path: booking B1 is linked to *)
(* index i1, and payment-create events of i1 may be processed while the    *)
(* confirmation of B1 is suspended on its snapshot fetch                   *)
(***************************************************************************)
LedgerRaceResponses(t) ==
    { [ok |-> FALSE, results |-> <<>>] }
    \cup { [ok |-> TRUE,
            results |-> <<Booking(id, "c1", "success", "plain", 20000, TRUE, <<t - 1000>>)>>] :
             id \in {"B1", "B2"} }

NextLedgerRace ==
    \/ \E a \in BlobAmounts : handleBookingConfirmation("B1", "success", a, <<>>)
    \/ \E resp \in LedgerRaceResponses(now) : ConfirmationFetchReturn(resp)
    \/ \E o \in CreateOutcomes : ConfirmationCreateReturn(o)
    \/ ConfirmationSettled
    \/ BookingCreateResponse("i1", "B1")
    \/ \E a \in RevAmounts, f \in BOOLEAN : handleRevenueCreation(<<"i1">>, a, f)

SpecLedgerRace == InitRevenue /\ [][NextLedgerRace]_vars

\* C27: in the step in which the confirmation path issues its create call,
\* the payload's amount and paid flag are the Payment Ledger's entries for
\* the booking as they stand at that step, a revenue event processed during
\* the snapshot fetch included.
C27_PayloadIsLedger ==
    [][ (conf.pc # "create" /\ conf'.pc = "create")
        => LET bookId == conf'.bookId
               payload == conf'.payload[1]
           IN /\ payload.paymented = paymentStatus'[bookId]
              /\ (bookId \in DOMAIN paymentAmounts'
                    => payload.paymentAmount = <<paymentAmounts'[bookId]>>) ]_vars

\* C28: a customer whose deferred task fired while no snapshot was cached
\* keeps waiting: the next listing that arrives has the customer's success
\* bookings that are in no dedup set forwarded as create calls by the
\* customer path.
C28_WaitsForNextListing ==
    [][ \A l \in CustomerListings(now), c \in Customers :
          ( /\ Len(cache.data) = 0
            /\ c \in processedCustomerRequests
            /\ TimersOf("processPendingCustomer", c) = {}
            /\ customerBookings(c, l, processedBookings, csProcessedAppBookings) # <<>>
            /\ handleBookingList(l) )
          => /\ cust'.pc = "create"
             /\ \E k \in 1..Len(l) : /\ l[k].book_id = cust'.cur
                                     /\ l[k].customer = c
                                     /\ l[k].state = "success" ]_vars

(***************************************************************************)
(* The snapshot path alone with a connector that accepts every call: app   *)
(* bookings B1 and B2 are listed in state success or canceling.  Calls     *)
(* answer, handlers settle, and a listing with B1 canceling keeps arriving. *)
(***************************************************************************)
CancelLiveListings(t) ==
    { <<Booking(id, "c1", st, "app", 20000, TRUE, <<t - 1000>>)>> :
        id \in {"B1", "B2"}, st \in {"success", "canceling"} }
    \cup { <<Booking("B1", "c1", st, "app", 20000, TRUE, <<t - 1000>>),
             Booking("B2", "c1", st, "app", 20000, TRUE, <<t - 1000>>)>> :
             st \in {"success", "canceling"} }

\* the listings that hold B1 in state canceling
ListsCanceling(l, bookId) ==
    \E k \in 1..Len(l) : l[k].book_id = bookId /\ IsCanceled(l[k])

CallAnswers ==
    \/ CancelSweepReturn("ok")
    \/ AppCreateReturn("ok")
    \/ BookingListSettled

CancelingListed ==
    \E l \in CancelLiveListings(now) : ListsCanceling(l, "B1") /\ handleBookingList(l)

NextCancelLive ==
    \/ \E l \in CancelLiveListings(now) : handleBookingList(l)
    \/ CancelSweepReturn("ok")
    \/ AppCreateReturn("ok")
    \/ BookingListSettled

SpecCancelLive ==
    /\ Init
    /\ [][NextCancelLive]_vars
    /\ WF_vars(CallAnswers)
    /\ SF_vars(CancelingListed)

\* C29: a booking forwarded as a create call and later listed in state
\* canceling or canceled eventually gets a downstream cancel call, when the
\* connector accepts the calls.
C29_CreatedThenCanceled ==
    (list.pc = "appCreate" /\ list.cur = "B1")
      ~> (list.pc \in {"cancelSweep", "appCancel"} /\ list.cur = "B1")

\* C30: whenever the cache passes the validity test for the 60,000 ms TTL,
\* the listing it holds was received less than 60,000 ms ago: a correction
\* made in place does not prolong the time an old listing is served.
C30_ValidMeansRecent ==
    isCacheValid(cache, CacheTtlMs, now) => now - list.i < CacheTtlMs

=============================================================================
